---- MODULE Spec2Model ----
(***************************************************************************)
(* DPsim Interface: the simulation thread (PreStep / PostStep tasks,       *)
(* open, close), the writer thread and the reader thread, communicating    *)
(* through the two queues mQueueDpsimToInterface and                       *)
(* mQueueInterfaceToDpsim, and the InterfaceWorker (the channel).          *)
(*                                                                         *)
(* CPS attributes (cps/Attribute.h): static and dynamic attributes, their  *)
(* update tasks, derivation and references, called by a client in any      *)
(* order.                                                                  *)
(***************************************************************************)
EXTENDS Integers, Sequences, FiniteSets, TLC

\* ---------------------------------------------------------------- bounds
MaxImportAttrs == 2    \* registered import attributes
MaxExportAttrs == 2    \* registered export attributes
MaxAttrs == 2          \* registered attributes, both directions together
MaxSteps == 2          \* simulation steps before the run must close
MaxInbound == 2        \* packets the peer sends over the whole run
MaxDownsampling == 2   \* downsampling factors 1..MaxDownsampling
MaxBatch == 2          \* values one channel read returns at most
MaxAttributes == 2     \* attribute objects the client creates
MaxTasks == 1          \* update tasks one list of an attribute holds at most

\* AttributePacketFlags
PACKET_NO_FLAGS == 0
PACKET_CLOSE_INTERFACE == 1

VARIABLES
    mOpened,                            \* Interface::mOpened
    chan,                               \* InterfaceWorker: "unopened", "open", "released"
    mDownsampling,                      \* Interface::mDownsampling
    mImportAttrsDpsim,                  \* <<attr, sequenceId, blockOnRead>> tuples
    mExportAttrsDpsim,                  \* <<attr, sequenceId>> tuples
    mCurrentSequenceDpsimToInterface,
    mNextSequenceInterfaceToDpsim,
    mQueueDpsimToInterface,             \* outbound queue
    mQueueInterfaceToDpsim,             \* inbound queue
    simPc,                              \* position of the simulation thread
    timeStepCount,
    currentSequenceId,                  \* local of popDpsimAttrsFromQueue
    pushI,                              \* loop index of pushDpsimAttrsToQueue (0-based)
    wPc,                                \* position of the writer thread
    interfaceClosed,                    \* local of WriterThread::operator()
    attrsToWrite,                       \* local of WriterThread::operator()
    rPc,                                \* position of the reader thread
    attrsRead,                          \* local of ReaderThread::operator()
    workerSeq,                          \* the worker's inbound sequence counter
    workerKeepsBatch,                   \* InterfaceWorker: writeValuesToEnv leaves its argument as it is
    written,                            \* history: the batches passed to writeValuesToEnv
    enqueued,                           \* history: export packets enqueued, with the step
    applied,                            \* history: inbound packets dequeued by the import task
    warnings,                           \* number of mLog->warn calls
    ioOutside,                          \* history: a channel call happened while chan # "open"
    popSteps,                           \* history: step counts at which PreStep called pop
    readAtPop,                          \* history: packets read from the channel when the first pop began
    attributes,                         \* the Attribute<T> objects, in creation order
    cells,                              \* the values the mData pointers point to
    attrMap,                            \* AttributeBase::Map: name -> attribute (0: no entry)
    lastCall                            \* history: the client's last call and its outcome

vars == <<mOpened, chan, workerKeepsBatch, mDownsampling, mImportAttrsDpsim, mExportAttrsDpsim,
          mCurrentSequenceDpsimToInterface, mNextSequenceInterfaceToDpsim,
          mQueueDpsimToInterface, mQueueInterfaceToDpsim, simPc, timeStepCount,
          currentSequenceId, pushI, wPc, interfaceClosed, attrsToWrite, rPc,
          attrsRead, workerSeq, written, enqueued, applied, warnings,
          ioOutside, popSteps, readAtPop, attributes, cells, attrMap, lastCall>>

\* the Interface
intfVars == <<mOpened, chan, workerKeepsBatch, mDownsampling, mImportAttrsDpsim,
              mExportAttrsDpsim, mCurrentSequenceDpsimToInterface,
              mNextSequenceInterfaceToDpsim, mQueueDpsimToInterface,
              mQueueInterfaceToDpsim, simPc, timeStepCount, currentSequenceId, pushI,
              wPc, interfaceClosed, attrsToWrite, rPc, attrsRead, workerSeq, written,
              enqueued, applied, warnings, ioOutside, popSteps, readAtPop>>
\* the attributes
attrVars == <<attributes, cells, attrMap, lastCall>>

ifaceVars == <<mOpened, chan, workerKeepsBatch>>
regVars == <<mDownsampling, mImportAttrsDpsim, mExportAttrsDpsim>>
seqVars == <<mCurrentSequenceDpsimToInterface, mNextSequenceInterfaceToDpsim>>
queueVars == <<mQueueDpsimToInterface, mQueueInterfaceToDpsim>>
simLocals == <<simPc, timeStepCount, currentSequenceId, pushI>>
simHist == <<enqueued, applied, warnings, popSteps, readAtPop>>
writerVars == <<wPc, interfaceClosed, attrsToWrite, written>>
readerVars == <<rPc, attrsRead>>
peerVars == <<workerSeq>>

\* the names a client registers attributes under
Names == {"v", "i"}

\* history: no call yet
NoCall == [op |-> "none", target |-> 0, arg |-> <<>>, ret |-> <<>>, thrown |-> "none",
           ran |-> <<>>]

\* a payload whose type does not match the target attribute
TypeMismatch == -1

\* AttributePacket { value, attributeId, sequenceId, flags }
AttributePacket(value, attributeId, sequenceId, flags) ==
    [value |-> value, attributeId |-> attributeId, sequenceId |-> sequenceId, flags |-> flags]

\* the entry of a 0-based slot index
ImportEntry(attributeId) == mImportAttrsDpsim[attributeId + 1]
ExportEntry(i) == mExportAttrsDpsim[i + 1]

Init ==
    /\ mOpened = FALSE
    /\ chan = "unopened"
    /\ workerKeepsBatch \in BOOLEAN
    /\ mDownsampling \in 1..MaxDownsampling
    /\ mImportAttrsDpsim = <<>>
    /\ mExportAttrsDpsim = <<>>
    /\ mCurrentSequenceDpsimToInterface = 0
    /\ mNextSequenceInterfaceToDpsim = 0
    /\ mQueueDpsimToInterface = <<>>
    /\ mQueueInterfaceToDpsim = <<>>
    /\ simPc = "setup"
    /\ timeStepCount = 0
    /\ currentSequenceId = 0
    /\ pushI = 0
    /\ wPc = "none"
    /\ interfaceClosed = FALSE
    /\ attrsToWrite = <<>>
    /\ rPc = "none"
    /\ attrsRead = <<>>
    /\ workerSeq = 0
    /\ written = <<>>
    /\ enqueued = <<>>
    /\ applied = <<>>
    /\ warnings = 0
    /\ ioOutside = FALSE
    /\ popSteps = {}
    /\ readAtPop = -1
    /\ attributes = <<>>
    /\ cells = <<>>
    /\ attrMap = [n \in Names |-> 0]
    /\ lastCall = NoCall

\* ------------------------------------------------------------ registration
importAttribute(blockOnRead) ==
    /\ simPc = "setup"
    /\ Len(mImportAttrsDpsim) < MaxImportAttrs
    /\ Len(mImportAttrsDpsim) + Len(mExportAttrsDpsim) < MaxAttrs
    /\ mImportAttrsDpsim' = Append(mImportAttrsDpsim,
                                   [attr |-> 0, sequenceId |-> 0, blockOnRead |-> blockOnRead])
    /\ UNCHANGED <<attrVars, ifaceVars, mDownsampling, mExportAttrsDpsim, seqVars, queueVars,
                   simLocals, simHist, writerVars, readerVars, peerVars, ioOutside>>

exportAttribute ==
    /\ simPc = "setup"
    /\ Len(mExportAttrsDpsim) < MaxExportAttrs
    /\ Len(mImportAttrsDpsim) + Len(mExportAttrsDpsim) < MaxAttrs
    /\ mExportAttrsDpsim' = Append(mExportAttrsDpsim, [attr |-> 0, sequenceId |-> 0])
    /\ UNCHANGED <<attrVars, ifaceVars, mDownsampling, mImportAttrsDpsim, seqVars, queueVars,
                   simLocals, simHist, writerVars, readerVars, peerVars, ioOutside>>

\* -------------------------------------------------------------------- open
\* mInterfaceWorker->open(); mOpened = true;
OpenWorker ==
    /\ simPc = "setup"
    /\ chan' = "open"
    /\ mOpened' = TRUE
    /\ simPc' = "openWriter"
    /\ UNCHANGED <<attrVars, workerKeepsBatch, regVars, seqVars, queueVars, timeStepCount,
                   currentSequenceId, pushI, simHist, writerVars, readerVars, peerVars,
                   ioOutside>>

\* mInterfaceWriterThread = std::thread(WriterThread(...))
StartWriterThread ==
    /\ simPc = "openWriter"
    /\ wPc' = "wait"
    /\ interfaceClosed' = FALSE
    /\ attrsToWrite' = <<>>
    /\ simPc' = "openReader"
    /\ UNCHANGED <<attrVars, ifaceVars, regVars, seqVars, queueVars, timeStepCount, currentSequenceId,
                   pushI, simHist, written, readerVars, peerVars, ioOutside>>

\* mInterfaceReaderThread = std::thread(ReaderThread(...))
StartReaderThread ==
    /\ simPc = "openReader"
    /\ rPc' = "loop"
    /\ attrsRead' = <<>>
    /\ simPc' = "pre"
    /\ UNCHANGED <<attrVars, ifaceVars, regVars, seqVars, queueVars, timeStepCount, currentSequenceId,
                   pushI, simHist, writerVars, peerVars, ioOutside>>

\* ------------------------------------------------------------------- tasks
\* mutant: the downsampling test is left out
ActsAtStep_Always(count) == TRUE

\* timeStepCount % mIntf.mDownsampling == 0
ActsAtStep(count) == count % mDownsampling = 0

\* mutant: the find_if does not look at the blockOnRead flag
BlockingAttrPending_IgnoreFlag(cur) ==
    \E k \in 1..Len(mImportAttrsDpsim) : mImportAttrsDpsim[k].sequenceId < cur

\* mutant: an attribute at the expected sequence number counts as behind
BlockingAttrPending_AtOrBelow(cur) ==
    \E k \in 1..Len(mImportAttrsDpsim) :
        mImportAttrsDpsim[k].blockOnRead /\ mImportAttrsDpsim[k].sequenceId <= cur

\* mutant: the comparison with the expected sequence number is off by one
BlockingAttrPending_OffByOne(cur) ==
    \E k \in 1..Len(mImportAttrsDpsim) :
        mImportAttrsDpsim[k].blockOnRead /\ mImportAttrsDpsim[k].sequenceId + 1 < cur

\* the find_if of popDpsimAttrsFromQueue: some blocking attribute is behind
BlockingAttrPending(cur) ==
    \E k \in 1..Len(mImportAttrsDpsim) :
        mImportAttrsDpsim[k].blockOnRead /\ mImportAttrsDpsim[k].sequenceId < cur

\* AttributeBase::copyValue: TRUE and the value is set, or FALSE and nothing changes
copyValue(attr, value) ==
    IF value = TypeMismatch THEN [ok |-> FALSE, attr |-> attr]
                            ELSE [ok |-> TRUE, attr |-> value]

\* mutant: the packet's slot index is ignored, the first entry is the target
ApplyReceivedPacket_FirstSlot(receivedPacket) ==
    LET res == copyValue(mImportAttrsDpsim[1].attr, receivedPacket.value)
    IN  /\ warnings' = IF res.ok THEN warnings ELSE warnings + 1
        /\ mImportAttrsDpsim' = [mImportAttrsDpsim EXCEPT
                                    ![1].attr = res.attr,
                                    ![1].sequenceId = receivedPacket.sequenceId]
        /\ mNextSequenceInterfaceToDpsim' = receivedPacket.sequenceId + 1
        /\ applied' = Append(applied, [attributeId |-> receivedPacket.attributeId,
                                       sequenceId |-> receivedPacket.sequenceId,
                                       ok |-> res.ok])

\* mutant: a failed copy skips the rest of the loop body
ApplyReceivedPacket_SkipOnFailure(receivedPacket) ==
    LET k == receivedPacket.attributeId + 1
        res == copyValue(mImportAttrsDpsim[k].attr, receivedPacket.value)
    IN  /\ warnings' = IF res.ok THEN warnings ELSE warnings + 1
        /\ mImportAttrsDpsim' = IF res.ok
                                THEN [mImportAttrsDpsim EXCEPT
                                        ![k].attr = res.attr,
                                        ![k].sequenceId = receivedPacket.sequenceId]
                                ELSE mImportAttrsDpsim
        /\ mNextSequenceInterfaceToDpsim' = IF res.ok THEN receivedPacket.sequenceId + 1
                                            ELSE mNextSequenceInterfaceToDpsim
        /\ applied' = Append(applied, [attributeId |-> receivedPacket.attributeId,
                                       sequenceId |-> receivedPacket.sequenceId,
                                       ok |-> res.ok])

\* the body shared by both dequeue loops of popDpsimAttrsFromQueue
ApplyReceivedPacket(receivedPacket) ==
    LET k == receivedPacket.attributeId + 1
        res == copyValue(mImportAttrsDpsim[k].attr, receivedPacket.value)
    IN  /\ warnings' = IF res.ok THEN warnings ELSE warnings + 1
        /\ mImportAttrsDpsim' = [mImportAttrsDpsim EXCEPT
                                    ![k].attr = res.attr,
                                    ![k].sequenceId = receivedPacket.sequenceId]
        /\ mNextSequenceInterfaceToDpsim' = receivedPacket.sequenceId + 1
        /\ applied' = Append(applied, [attributeId |-> receivedPacket.attributeId,
                                       sequenceId |-> receivedPacket.sequenceId,
                                       ok |-> res.ok])

\* Interface::PreStep::execute, up to the first queue operation of pop
PreStep ==
    /\ simPc = "pre"
    /\ timeStepCount < MaxSteps
    /\ IF mImportAttrsDpsim # <<>> /\ ActsAtStep(timeStepCount)
       THEN /\ currentSequenceId' = mNextSequenceInterfaceToDpsim
            /\ simPc' = "popWait"
            /\ popSteps' = popSteps \cup {timeStepCount}
            /\ readAtPop' = IF readAtPop = -1 THEN workerSeq ELSE readAtPop
       ELSE /\ simPc' = "tasks"
            /\ UNCHANGED <<currentSequenceId, popSteps, readAtPop>>
    /\ UNCHANGED <<attrVars, ifaceVars, regVars, seqVars, queueVars, timeStepCount, pushI,
                   enqueued, applied, warnings, writerVars, readerVars, peerVars, ioOutside>>

\* first loop of pop: wait_dequeue while a blocking attribute is behind
PopWaitDequeue ==
    /\ simPc = "popWait"
    /\ BlockingAttrPending(currentSequenceId)
    /\ mQueueInterfaceToDpsim # <<>>
    /\ ApplyReceivedPacket(Head(mQueueInterfaceToDpsim))
    /\ mQueueInterfaceToDpsim' = Tail(mQueueInterfaceToDpsim)
    /\ UNCHANGED <<attrVars, ifaceVars, mDownsampling, mExportAttrsDpsim,
                   mCurrentSequenceDpsimToInterface, mQueueDpsimToInterface, simLocals,
                   enqueued, popSteps, readAtPop, writerVars, readerVars, peerVars, ioOutside>>

\* the first loop is over: no blocking attribute is behind
InSecondLoop ==
    \/ simPc = "popDrain"
    \/ simPc = "popWait" /\ ~BlockingAttrPending(currentSequenceId)

\* second loop of pop: try_dequeue succeeded
PopTryDequeue ==
    /\ InSecondLoop
    /\ mQueueInterfaceToDpsim # <<>>
    /\ ApplyReceivedPacket(Head(mQueueInterfaceToDpsim))
    /\ mQueueInterfaceToDpsim' = Tail(mQueueInterfaceToDpsim)
    /\ simPc' = "popDrain"
    /\ UNCHANGED <<attrVars, ifaceVars, mDownsampling, mExportAttrsDpsim,
                   mCurrentSequenceDpsimToInterface, mQueueDpsimToInterface,
                   timeStepCount, currentSequenceId, pushI,
                   enqueued, popSteps, readAtPop, writerVars, readerVars, peerVars, ioOutside>>

\* second loop of pop: try_dequeue failed, pop and PreStep return
PopReturn ==
    /\ InSecondLoop
    /\ mQueueInterfaceToDpsim = <<>>
    /\ simPc' = "tasks"
    /\ UNCHANGED <<attrVars, ifaceVars, regVars, seqVars, queueVars, timeStepCount, currentSequenceId,
                   pushI, simHist, writerVars, readerVars, peerVars, ioOutside>>

\* the value the components give the exported attribute of slot i at a step:
\* the Interface never looks into a value, so one fresh value per attribute and
\* step shows every reordering, repetition, stale read or mixed-up slot
StepValue(i, count) == MaxSteps * i + count + 1

\* the step's other tasks: the components set the exported attributes
ComponentTasks ==
    /\ simPc = "tasks"
    /\ mExportAttrsDpsim' = [k \in 1..Len(mExportAttrsDpsim) |->
                                [mExportAttrsDpsim[k] EXCEPT !.attr = StepValue(k - 1, timeStepCount)]]
    /\ simPc' = "post"
    /\ UNCHANGED <<attrVars, ifaceVars, mDownsampling, mImportAttrsDpsim, seqVars, queueVars,
                   timeStepCount, currentSequenceId, pushI, simHist, writerVars, readerVars,
                   peerVars, ioOutside>>

\* Interface::PostStep::execute, up to the first enqueue of push
PostStep ==
    /\ simPc = "post"
    /\ IF mExportAttrsDpsim # <<>> /\ ActsAtStep(timeStepCount)
       THEN /\ simPc' = "push"
            /\ pushI' = 0
            /\ UNCHANGED timeStepCount
       ELSE /\ simPc' = "pre"
            /\ timeStepCount' = timeStepCount + 1
            /\ UNCHANGED pushI
    /\ UNCHANGED <<attrVars, ifaceVars, regVars, seqVars, queueVars, currentSequenceId, simHist,
                   writerVars, readerVars, peerVars, ioOutside>>

\* AttributeBase::cloneValueOntoNewAttribute: a detached copy of the current value
cloneValueOntoNewAttribute(attr) == attr

\* the packet pushDpsimAttrsToQueue builds for loop index i
ExportPacket(i) ==
    AttributePacket(cloneValueOntoNewAttribute(ExportEntry(i).attr), i,
                    ExportEntry(i).sequenceId, PACKET_NO_FLAGS)

\* one iteration of the loop of pushDpsimAttrsToQueue; after the last one
\* PostStep returns and the step is over
PushOne ==
    /\ simPc = "push"
    /\ pushI < Len(mExportAttrsDpsim)
    /\ mQueueDpsimToInterface' = Append(mQueueDpsimToInterface, ExportPacket(pushI))
    /\ enqueued' = Append(enqueued, ExportPacket(pushI))
    /\ mExportAttrsDpsim' = [mExportAttrsDpsim EXCEPT
                                ![pushI + 1].sequenceId = mCurrentSequenceDpsimToInterface]
    /\ mCurrentSequenceDpsimToInterface' = mCurrentSequenceDpsimToInterface + 1
    /\ pushI' = pushI + 1
    /\ IF pushI + 1 < Len(mExportAttrsDpsim)
       THEN UNCHANGED <<simPc, timeStepCount>>
       ELSE /\ simPc' = "pre"
            /\ timeStepCount' = timeStepCount + 1
    /\ UNCHANGED <<attrVars, ifaceVars, mDownsampling, mImportAttrsDpsim,
                   mNextSequenceInterfaceToDpsim, mQueueInterfaceToDpsim,
                   currentSequenceId, applied, warnings, popSteps, readAtPop,
                   writerVars, readerVars, peerVars, ioOutside>>

\* ------------------------------------------------------------------- close
\* mOpened = false;
CloseMark ==
    /\ simPc = "pre"
    /\ mOpened' = FALSE
    /\ simPc' = "closeEnqueue"
    /\ UNCHANGED <<attrVars, chan, workerKeepsBatch, regVars, seqVars, queueVars, timeStepCount,
                   currentSequenceId, pushI, simHist, writerVars, readerVars, peerVars,
                   ioOutside>>

\* the close sentinel
ClosePacket == AttributePacket(0, 0, 0, PACKET_CLOSE_INTERFACE)

\* mQueueDpsimToInterface->enqueue(AttributePacket{nullptr, 0, 0, PACKET_CLOSE_INTERFACE})
CloseEnqueue ==
    /\ simPc = "closeEnqueue"
    /\ mQueueDpsimToInterface' = Append(mQueueDpsimToInterface, ClosePacket)
    /\ simPc' = "joinWriter"
    /\ UNCHANGED <<attrVars, ifaceVars, regVars, seqVars, mQueueInterfaceToDpsim, timeStepCount,
                   currentSequenceId, pushI, simHist, writerVars, readerVars, peerVars,
                   ioOutside>>

\* mutant: close does not wait for the writer thread
CloseJoinWriter_NoWait ==
    /\ simPc = "joinWriter"
    /\ simPc' = "joinReader"
    /\ UNCHANGED <<attrVars, ifaceVars, regVars, seqVars, queueVars, timeStepCount, currentSequenceId,
                   pushI, simHist, writerVars, readerVars, peerVars, ioOutside>>

\* mInterfaceWriterThread.join();
CloseJoinWriter ==
    /\ simPc = "joinWriter"
    /\ wPc = "done"
    /\ simPc' = "joinReader"
    /\ UNCHANGED <<attrVars, ifaceVars, regVars, seqVars, queueVars, timeStepCount, currentSequenceId,
                   pushI, simHist, writerVars, readerVars, peerVars, ioOutside>>

\* mInterfaceReaderThread.join();
CloseJoinReader ==
    /\ simPc = "joinReader"
    /\ rPc = "done"
    /\ simPc' = "closeWorker"
    /\ UNCHANGED <<attrVars, ifaceVars, regVars, seqVars, queueVars, timeStepCount, currentSequenceId,
                   pushI, simHist, writerVars, readerVars, peerVars, ioOutside>>

\* mInterfaceWorker->close();
CloseWorker ==
    /\ simPc = "closeWorker"
    /\ chan' = "released"
    /\ simPc' = "closed"
    /\ UNCHANGED <<attrVars, mOpened, workerKeepsBatch, regVars, seqVars, queueVars, timeStepCount,
                   currentSequenceId, pushI, simHist, writerVars, readerVars, peerVars,
                   ioOutside>>

\* ----------------------------------------------------------- writer thread
\* mutant: the writer reads the value of the registered attribute itself
WriterTake_ReadsAttribute(nextPacket) ==
    IF nextPacket.flags = PACKET_CLOSE_INTERFACE
    THEN /\ interfaceClosed' = TRUE
         /\ UNCHANGED attrsToWrite
    ELSE /\ attrsToWrite' = Append(attrsToWrite,
                                 [nextPacket EXCEPT !.value = ExportEntry(nextPacket.attributeId).attr])
         /\ UNCHANGED interfaceClosed

\* what the writer does with a packet it dequeued
WriterTake(nextPacket) ==
    IF nextPacket.flags = PACKET_CLOSE_INTERFACE
    THEN /\ interfaceClosed' = TRUE
         /\ UNCHANGED attrsToWrite
    ELSE /\ attrsToWrite' = Append(attrsToWrite, nextPacket)
         /\ UNCHANGED interfaceClosed

\* mQueueDpsimToInterface->wait_dequeue(nextPacket)
WriterWaitDequeue ==
    /\ wPc = "wait"
    /\ mQueueDpsimToInterface # <<>>
    /\ WriterTake(Head(mQueueDpsimToInterface))
    /\ mQueueDpsimToInterface' = Tail(mQueueDpsimToInterface)
    /\ wPc' = "drain"
    /\ UNCHANGED <<attrVars, ifaceVars, regVars, seqVars, mQueueInterfaceToDpsim, simLocals, simHist,
                   written, readerVars, peerVars, ioOutside>>

\* while (try_dequeue(nextPacket)): success
WriterTryDequeue ==
    /\ wPc = "drain"
    /\ mQueueDpsimToInterface # <<>>
    /\ WriterTake(Head(mQueueDpsimToInterface))
    /\ mQueueDpsimToInterface' = Tail(mQueueDpsimToInterface)
    /\ UNCHANGED <<attrVars, ifaceVars, regVars, seqVars, mQueueInterfaceToDpsim, simLocals, simHist,
                   wPc, written, readerVars, peerVars, ioOutside>>

\* InterfaceWorker::writeValuesToEnv: the batch goes to the channel; the worker
\* gets the vector by reference and, depending on the transport, leaves it as it
\* is or consumes it
writeValuesToEnv(batch) ==
    /\ ioOutside' = (ioOutside \/ chan # "open")
    /\ written' = Append(written, batch)
    /\ attrsToWrite' = IF workerKeepsBatch THEN batch ELSE <<>>

\* mutant: the writer leaves its loop on the sentinel without the last write
WriterWrite_SkipOnClose ==
    /\ wPc = "drain"
    /\ mQueueDpsimToInterface = <<>>
    /\ IF interfaceClosed
       THEN UNCHANGED <<written, attrsToWrite, ioOutside>>
       ELSE writeValuesToEnv(attrsToWrite)
    /\ wPc' = IF interfaceClosed THEN "done" ELSE "wait"
    /\ UNCHANGED <<attrVars, ifaceVars, regVars, seqVars, queueVars, simLocals, simHist,
                   interfaceClosed, readerVars, peerVars>>

\* try_dequeue finds the queue empty; mInterfaceWorker->writeValuesToEnv(attrsToWrite);
\* and the loop condition
WriterWrite ==
    /\ wPc = "drain"
    /\ mQueueDpsimToInterface = <<>>
    /\ writeValuesToEnv(attrsToWrite)
    /\ wPc' = IF interfaceClosed THEN "done" ELSE "wait"
    /\ UNCHANGED <<attrVars, ifaceVars, regVars, seqVars, queueVars, simLocals, simHist,
                   interfaceClosed, readerVars, peerVars>>

\* ----------------------------------------------------------- reader thread
\* mutant: the reader loops without looking at mOpened
ReaderLoop_Forever ==
    /\ rPc = "loop"
    /\ attrsRead = <<>>
    /\ rPc' = "reading"
    /\ ioOutside' = (ioOutside \/ chan # "open")
    /\ UNCHANGED <<attrVars, ifaceVars, regVars, seqVars, queueVars, simLocals, simHist, writerVars,
                   attrsRead, peerVars>>

\* attrsRead.clear(); while (mOpened); and the call of readValuesFromEnv
ReaderLoop ==
    /\ rPc = "loop"
    /\ attrsRead = <<>>
    /\ IF mOpened
       THEN /\ rPc' = "reading"
            /\ ioOutside' = (ioOutside \/ chan # "open")
       ELSE /\ rPc' = "done"
            /\ UNCHANGED ioOutside
    /\ UNCHANGED <<attrVars, ifaceVars, regVars, seqVars, queueVars, simLocals, simHist, writerVars,
                   attrsRead, peerVars>>

\* the batches a read can return: up to MaxBatch values for registered import
\* slots, while the peer has values left to send
ReadBatches ==
    LET item == [wellTyped : BOOLEAN, attributeId : 0..(Len(mImportAttrsDpsim) - 1)]
        left == MaxInbound - workerSeq
    IN  UNION {[1..n -> item] : n \in 0..(IF left < MaxBatch THEN left ELSE MaxBatch)}

\* the value the peer sends in the packet the worker numbers seq: the Interface
\* never looks into a value, so one fresh value per packet shows which packet
\* an attribute's value comes from
PeerValue(seq) == seq + 1

\* the packets the worker makes of the values it read
WorkerPackets(vals, seq) ==
    [k \in 1..Len(vals) |->
        AttributePacket(IF vals[k].wellTyped THEN PeerValue(seq + k - 1) ELSE TypeMismatch,
                        vals[k].attributeId, seq + k - 1, PACKET_NO_FLAGS)]

\* InterfaceWorker::readValuesFromEnv returns with the values that arrived
readValuesFromEnv ==
    /\ rPc = "reading"
    /\ \E vals \in ReadBatches :
          /\ attrsRead' = WorkerPackets(vals, workerSeq)
          /\ workerSeq' = workerSeq + Len(vals)
    /\ rPc' = "loop"
    /\ UNCHANGED <<attrVars, ifaceVars, regVars, seqVars, queueVars, simLocals, simHist, writerVars,
                   ioOutside>>

\* for (auto packet : attrsRead) mQueueInterfaceToDpsim->enqueue(packet);
ReaderEnqueue ==
    /\ rPc = "loop"
    /\ attrsRead # <<>>
    /\ mQueueInterfaceToDpsim' = Append(mQueueInterfaceToDpsim, Head(attrsRead))
    /\ attrsRead' = Tail(attrsRead)
    /\ UNCHANGED <<attrVars, ifaceVars, regVars, seqVars, mQueueDpsimToInterface, simLocals, simHist,
                   writerVars, rPc, peerVars, ioOutside>>

\* =============================================================== attributes
\* UpdateTaskKind
UPDATE_ONCE == 0
UPDATE_ON_GET == 1
UPDATE_ON_SET == 2
UPDATE_ON_SIMULATION_STEP == 3

\* the values a client creates and sets attributes with, and the scale factors
\* it derives with (nonzero; every set value is a multiple of every factor)
InitialValues == {0, 2}
SetValues == {2, 4}
Scales == {-1, 2}

\* a CPS::Complex value, and the ones a client creates and sets Complex
\* attributes with
Complex(re, im) == [re |-> re, im |-> im]
ComplexValues == {Complex(re, im) : re \in {0, 2}, im \in {0, 4}}

NoException == "none"
TypeException == "TypeException"
InvalidArgumentException == "InvalidArgumentException"

\* an AttributeStatic<T> / AttributeDynamic<T> object: mData points to a cell;
\* AttributeStatic has no task lists, which the three empty lists stand for
AttributeStatic(cell) ==
    [isStatic |-> TRUE, mData |-> cell, updateTasksOnce |-> <<>>,
     updateTasksOnGet |-> <<>>, updateTasksOnSet |-> <<>>]

AttributeDynamic(cell) ==
    [isStatic |-> FALSE, mData |-> cell, updateTasksOnce |-> <<>>,
     updateTasksOnGet |-> <<>>, updateTasksOnSet |-> <<>>]

\* AttributeUpdateTask<DependentType, DependencyTypes...>: an object of the derived class
AttributeUpdateTask(kind, actorFunction, dependency) ==
    [derived |-> TRUE, mKind |-> kind, mActorFunction |-> actorFunction,
     mDependencies |-> dependency]

\* AttributeUpdateTaskBase<T> copy-constructed from a task: what a by-value
\* parameter and a std::vector<AttributeUpdateTaskBase<T>> hold is the base
\* subobject only, with the base's virtual functions
AttributeUpdateTaskBase(task) == [derived |-> FALSE]

\* the Actor functions: an empty std::function, and the lambdas of deriveScaled
\* and setReference
NoActor == [fn |-> "empty", scale |-> 0]
ScaledGetter(scale) == [fn |-> "scaledGetter", scale |-> scale]
ScaledSetter(scale) == [fn |-> "scaledSetter", scale |-> scale]
ReferenceGetter == [fn |-> "referenceGetter", scale |-> 0]
\* the lambdas of deriveReal and deriveImag
RealGetter == [fn |-> "realGetter", scale |-> 0]
RealSetter == [fn |-> "realSetter", scale |-> 0]
ImagGetter == [fn |-> "imagGetter", scale |-> 0]
ImagSetter == [fn |-> "imagSetter", scale |-> 0]

\* the state a call works on and its outcome: ret is <<>> or the returned
\* value(s), thrown the exception that left the call, ran the actor functions
\* that were invoked, in order
Env ==
    [attributes |-> attributes, cells |-> cells, ret |-> <<>>,
     thrown |-> NoException, ran |-> <<>>]

\* (*dependent) / scale on Real, scale nonzero; the quotient is exact for the
\* multiples of scale
RealDiv(value, scale) ==
    IF scale > 0 THEN value \div scale ELSE (0 - value) \div (0 - scale)

RECURSIVE Attribute_get(_, _)
RECURSIVE Attribute_set(_, _, _)

\* mActorFunction(dependent, dependency); dependent is the mData of the
\* attribute the task belongs to
mActorFunction(task, env, dependent) ==
    LET f == task.mActorFunction
        dependency == task.mDependencies
        e == [env EXCEPT !.ran = Append(@, [attr |-> dependent, mKind |-> task.mKind,
                                            fn |-> f.fn, scale |-> f.scale])]
    IN  CASE f.fn = "scaledGetter" ->
                \* *dependent = scale * (**dependency);
                LET g == Attribute_get(e, dependency)
                IN  IF g.thrown # NoException THEN g
                    ELSE [g EXCEPT !.cells[g.attributes[dependent].mData] = f.scale * g.ret[1],
                                   !.ret = <<>>]
          [] f.fn = "scaledSetter" ->
                \* dependency->set((*dependent) / scale);
                Attribute_set(e, dependency,
                              RealDiv(e.cells[e.attributes[dependent].mData], f.scale))
          [] f.fn = "referenceGetter" ->
                \* dependent = dependency->asRawPointer();
                [e EXCEPT !.attributes[dependent].mData = e.attributes[dependency].mData]
          [] f.fn = "realGetter" ->
                \* *dependent = (**dependency).real();
                LET g == Attribute_get(e, dependency)
                IN  IF g.thrown # NoException THEN g
                    ELSE [g EXCEPT !.cells[g.attributes[dependent].mData] = g.ret[1].re,
                                   !.ret = <<>>]
          [] f.fn = "imagGetter" ->
                \* *dependent = (**dependency).imag();
                LET g == Attribute_get(e, dependency)
                IN  IF g.thrown # NoException THEN g
                    ELSE [g EXCEPT !.cells[g.attributes[dependent].mData] = g.ret[1].im,
                                   !.ret = <<>>]
          [] f.fn = "realSetter" ->
                \* currentValue = dependency->get(); currentValue.real(*dependent);
                \* dependency->set(currentValue);
                LET g == Attribute_get(e, dependency)
                IN  IF g.thrown # NoException THEN g
                    ELSE Attribute_set([g EXCEPT !.ret = <<>>], dependency,
                             Complex(g.cells[g.attributes[dependent].mData], g.ret[1].im))
          [] f.fn = "imagSetter" ->
                \* currentValue = dependency->get(); currentValue.imag(*dependent);
                \* dependency->set(currentValue);
                LET g == Attribute_get(e, dependency)
                IN  IF g.thrown # NoException THEN g
                    ELSE Attribute_set([g EXCEPT !.ret = <<>>], dependency,
                             Complex(g.ret[1].re, g.cells[g.attributes[dependent].mData]))
          [] OTHER -> e

\* task.executeUpdate(this->mData): AttributeUpdateTaskBase::executeUpdate
\* throws, AttributeUpdateTask::executeUpdate calls the actor function
executeUpdate(task, env, dependent) ==
    IF task.derived THEN mActorFunction(task, env, dependent)
                    ELSE [env EXCEPT !.thrown = TypeException]

RECURSIVE ExecuteTasks(_, _, _)
\* for (auto task : tasks) task.executeUpdate(this->mData); an exception ends the loop
ExecuteTasks(tasks, env, dependent) ==
    IF tasks = <<>> \/ env.thrown # NoException THEN env
    ELSE ExecuteTasks(Tail(tasks), executeUpdate(Head(tasks), env, dependent), dependent)

\* mutant: the assignment to *mData is missing
AttributeStatic_set_NoStore(env, a, value) == env

\* AttributeStatic::set
AttributeStatic_set(env, a, value) ==
    [env EXCEPT !.cells[env.attributes[a].mData] = value]

\* AttributeStatic::get
AttributeStatic_get(env, a) ==
    [env EXCEPT !.ret = <<env.cells[env.attributes[a].mData]>>]

\* AttributeDynamic::set
AttributeDynamic_set(env, a, value) ==
    ExecuteTasks(env.attributes[a].updateTasksOnSet,
                 [env EXCEPT !.cells[env.attributes[a].mData] = value], a)

\* AttributeDynamic::get
AttributeDynamic_get(env, a) ==
    LET e == ExecuteTasks(env.attributes[a].updateTasksOnGet, env, a)
    IN  IF e.thrown # NoException THEN e
        ELSE [e EXCEPT !.ret = <<e.cells[e.attributes[a].mData]>>]

\* virtual void set(T value)
Attribute_set(env, a, value) ==
    IF env.attributes[a].isStatic THEN AttributeStatic_set(env, a, value)
                                  ELSE AttributeDynamic_set(env, a, value)

\* virtual T& get()
Attribute_get(env, a) ==
    IF env.attributes[a].isStatic THEN AttributeStatic_get(env, a)
                                  ELSE AttributeDynamic_get(env, a)

\* mutant: the case of UPDATE_ON_SIMULATION_STEP stores the task instead of throwing
AttributeDynamic_addTask_StoresStep(env, a, kind, task) ==
    LET stored == AttributeUpdateTaskBase(task)
    IN  CASE kind = UPDATE_ONCE ->
                [env EXCEPT !.attributes[a].updateTasksOnce = Append(@, stored),
                            !.attributes[a].updateTasksOnGet = Append(@, stored)]
          [] kind = UPDATE_ON_GET ->
                [env EXCEPT !.attributes[a].updateTasksOnGet = Append(@, stored)]
          [] OTHER ->
                [env EXCEPT !.attributes[a].updateTasksOnSet = Append(@, stored)]

\* AttributeDynamic::addTask: the switch, with the case of UPDATE_ONCE running
\* on into the case of UPDATE_ON_GET
AttributeDynamic_addTask(env, a, kind, task) ==
    LET stored == AttributeUpdateTaskBase(task)
    IN  CASE kind = UPDATE_ONCE ->
                [env EXCEPT !.attributes[a].updateTasksOnce = Append(@, stored),
                            !.attributes[a].updateTasksOnGet = Append(@, stored)]
          [] kind = UPDATE_ON_GET ->
                [env EXCEPT !.attributes[a].updateTasksOnGet = Append(@, stored)]
          [] kind = UPDATE_ON_SET ->
                [env EXCEPT !.attributes[a].updateTasksOnSet = Append(@, stored)]
          [] kind = UPDATE_ON_SIMULATION_STEP ->
                [env EXCEPT !.thrown = InvalidArgumentException]
          [] OTHER -> env

\* AttributeDynamic::clearTasks: the same switch
AttributeDynamic_clearTasks(env, a, kind) ==
    CASE kind = UPDATE_ONCE ->
            [env EXCEPT !.attributes[a].updateTasksOnce = <<>>,
                        !.attributes[a].updateTasksOnGet = <<>>]
      [] kind = UPDATE_ON_GET ->
            [env EXCEPT !.attributes[a].updateTasksOnGet = <<>>]
      [] kind = UPDATE_ON_SET ->
            [env EXCEPT !.attributes[a].updateTasksOnSet = <<>>]
      [] kind = UPDATE_ON_SIMULATION_STEP ->
            [env EXCEPT !.thrown = InvalidArgumentException]
      [] OTHER -> env

\* AttributeDynamic::clearAllTasks
AttributeDynamic_clearAllTasks(env, a) ==
    [env EXCEPT !.attributes[a].updateTasksOnce = <<>>,
                !.attributes[a].updateTasksOnGet = <<>>,
                !.attributes[a].updateTasksOnSet = <<>>]

\* mutant: a static attribute takes the reference as a dynamic one does
AttributeStatic_setReference_Accepts(env, a, reference) ==
    [env EXCEPT !.attributes[a].updateTasksOnGet =
                    Append(@, AttributeUpdateTaskBase(
                                  AttributeUpdateTask(UPDATE_ON_GET, ReferenceGetter, a)))]

\* AttributeStatic::setReference
AttributeStatic_setReference(env, a, reference) ==
    [env EXCEPT !.thrown = TypeException]

\* AttributeDynamic::setReference: the task's dependency is this->shared_from_this()
AttributeDynamic_setReference(env, a, reference) ==
    LET e == AttributeDynamic_clearAllTasks(env, a)
    IN  IF e.attributes[reference].isStatic
        THEN AttributeDynamic_addTask(e, a, UPDATE_ONCE,
                                      AttributeUpdateTask(UPDATE_ONCE, ReferenceGetter, a))
        ELSE AttributeDynamic_addTask(e, a, UPDATE_ON_GET,
                                      AttributeUpdateTask(UPDATE_ON_GET, ReferenceGetter, a))

\* virtual void setReference(Attribute<T>::Ptr reference)
Attribute_setReference(env, a, reference) ==
    IF env.attributes[a].isStatic THEN AttributeStatic_setReference(env, a, reference)
                                  ELSE AttributeDynamic_setReference(env, a, reference)

\* task.getDependencies(): AttributeUpdateTaskBase::getDependencies throws,
\* AttributeUpdateTask::getDependencies returns mDependencies
Task_getDependencies(task, env) ==
    IF task.derived THEN [env EXCEPT !.ret = @ \o <<task.mDependencies>>]
                    ELSE [env EXCEPT !.thrown = TypeException]

RECURSIVE CollectDependencies(_, _)
\* for (auto task : tasks) deps.insert(deps.end(), taskDeps...)
CollectDependencies(tasks, env) ==
    IF tasks = <<>> \/ env.thrown # NoException THEN env
    ELSE CollectDependencies(Tail(tasks), Task_getDependencies(Head(tasks), env))

\* AttributeStatic::getDependencies
AttributeStatic_getDependencies(env, a) == [env EXCEPT !.ret = <<>>]

\* AttributeDynamic::getDependencies: the lists of UPDATE_ONCE and UPDATE_ON_GET
AttributeDynamic_getDependencies(env, a) ==
    LET e == CollectDependencies(env.attributes[a].updateTasksOnGet,
                 CollectDependencies(env.attributes[a].updateTasksOnce, env))
    IN  IF e.thrown # NoException THEN [e EXCEPT !.ret = <<>>] ELSE e

\* virtual AttributeBase::List getDependencies()
Attribute_getDependencies(env, a) ==
    IF env.attributes[a].isStatic THEN AttributeStatic_getDependencies(env, a)
                                  ELSE AttributeDynamic_getDependencies(env, a)

\* Attribute::derive<U>(getter, setter) on the attribute source: the new
\* attribute is the last one of the result
Attribute_derive(env, source, getter, setter) ==
    LET derivedAttribute == Len(env.attributes) + 1
        e0 == [env EXCEPT !.attributes = Append(@, AttributeDynamic(Len(env.cells) + 1)),
                          !.cells = Append(@, 0)]
        e1 == IF setter # NoActor
              THEN AttributeDynamic_addTask(e0, derivedAttribute, UPDATE_ON_SET,
                       AttributeUpdateTask(UPDATE_ON_SET, setter, source))
              ELSE e0
        e2 == IF getter # NoActor
              THEN AttributeDynamic_addTask(e1, derivedAttribute, UPDATE_ON_GET,
                       AttributeUpdateTask(UPDATE_ON_GET, getter, source))
              ELSE e1
    IN  [e2 EXCEPT !.ret = <<derivedAttribute>>]

\* Attribute<Complex>::deriveReal() on the attribute source
Attribute_deriveReal(env, source) == Attribute_derive(env, source, RealGetter, RealSetter)

\* Attribute<Complex>::deriveImag() on the attribute source
Attribute_deriveImag(env, source) == Attribute_derive(env, source, ImagGetter, ImagSetter)

\* ---- the client's calls
\* history: one call, with its outcome
Call(op, target, arg, env) ==
    [op |-> op, target |-> target, arg |-> arg, ret |-> env.ret, thrown |-> env.thrown,
     ran |-> env.ran]

\* the value the last call returned, when it was a get
ReturnedValues ==
    IF lastCall.op = "get" /\ lastCall.thrown = NoException THEN {lastCall.ret[1]} ELSE {}

\* mutant: the map keeps the entry a name has already (as map::insert does)
create_KeepsEntry(name, initialValue) ==
    /\ Len(attributes) < MaxAttributes
    /\ LET newAttr == Len(attributes) + 1
       IN  /\ attributes' = Append(attributes, AttributeStatic(Len(cells) + 1))
           /\ cells' = Append(cells, initialValue)
           /\ attrMap' = IF attrMap[name] # 0 THEN attrMap
                         ELSE [attrMap EXCEPT ![name] = newAttr]
           /\ lastCall' = [Call("create", newAttr, <<initialValue>>, Env)
                             EXCEPT !.ret = <<newAttr>>]
    /\ UNCHANGED intfVars

\* Attribute<T>::create(name, attrMap, initialValue)
create(name, initialValue) ==
    /\ Len(attributes) < MaxAttributes
    /\ LET newAttr == Len(attributes) + 1
       IN  /\ attributes' = Append(attributes, AttributeStatic(Len(cells) + 1))
           /\ cells' = Append(cells, initialValue)
           /\ attrMap' = [attrMap EXCEPT ![name] = newAttr]
           /\ lastCall' = [Call("create", newAttr, <<initialValue>>, Env)
                             EXCEPT !.ret = <<newAttr>>]
    /\ UNCHANGED intfVars

\* Attribute<T>::createDynamic(name, attrMap)
createDynamic(name) ==
    /\ Len(attributes) < MaxAttributes
    /\ LET newAttr == Len(attributes) + 1
       IN  /\ attributes' = Append(attributes, AttributeDynamic(Len(cells) + 1))
           /\ cells' = Append(cells, 0)
           /\ attrMap' = [attrMap EXCEPT ![name] = newAttr]
           /\ lastCall' = [Call("createDynamic", newAttr, <<>>, Env)
                             EXCEPT !.ret = <<newAttr>>]
    /\ UNCHANGED intfVars

\* source->derive<T>(getter, setter)
derive(source, getter, setter) ==
    /\ source \in 1..Len(attributes)
    /\ Len(attributes) < MaxAttributes
    /\ LET env == Attribute_derive(Env, source, getter, setter)
       IN  /\ attributes' = env.attributes
           /\ cells' = env.cells
           /\ lastCall' = Call("derive", source, <<getter, setter>>, env)
    /\ UNCHANGED <<intfVars, attrMap>>

\* source->deriveScaled(scale)
deriveScaled(source, scale) ==
    derive(source, ScaledGetter(scale), ScaledSetter(scale))

\* source->deriveReal(), source an Attribute<Complex>
deriveReal(source) == derive(source, RealGetter, RealSetter)

\* source->deriveImag(), source an Attribute<Complex>
deriveImag(source) == derive(source, ImagGetter, ImagSetter)

\* a->set(value)
set(a, value) ==
    /\ a \in 1..Len(attributes)
    /\ LET env == Attribute_set(Env, a, value)
       IN  /\ attributes' = env.attributes
           /\ cells' = env.cells
           /\ lastCall' = Call("set", a, <<value>>, env)
    /\ UNCHANGED <<intfVars, attrMap>>

\* a->get()
get(a) ==
    /\ a \in 1..Len(attributes)
    /\ LET env == Attribute_get(Env, a)
       IN  /\ attributes' = env.attributes
           /\ cells' = env.cells
           /\ lastCall' = Call("get", a, <<>>, env)
    /\ UNCHANGED <<intfVars, attrMap>>

\* a->setReference(reference)
setReference(a, reference) ==
    /\ a \in 1..Len(attributes)
    /\ reference \in 1..Len(attributes)
    /\ LET env == Attribute_setReference(Env, a, reference)
       IN  /\ attributes' = env.attributes
           /\ cells' = env.cells
           /\ lastCall' = Call("setReference", a, <<reference>>, env)
    /\ UNCHANGED <<intfVars, attrMap>>

\* a->getDependencies()
getDependencies(a) ==
    /\ a \in 1..Len(attributes)
    /\ LET env == Attribute_getDependencies(Env, a)
       IN  /\ lastCall' = Call("getDependencies", a, <<>>, env)
           /\ attributes' = env.attributes
           /\ cells' = env.cells
    /\ UNCHANGED <<intfVars, attrMap>>

\* a->addTask(kind, AttributeUpdateTask<T, T>(kind, actor, dependency)) on an
\* AttributeDynamic; the actor is a scaling lambda
addTask(a, kind, dependency) ==
    /\ a \in 1..Len(attributes)
    /\ dependency \in 1..Len(attributes)
    /\ ~attributes[a].isStatic
    /\ kind = UPDATE_ONCE => Len(attributes[a].updateTasksOnce) < MaxTasks
    /\ kind \in {UPDATE_ONCE, UPDATE_ON_GET} => Len(attributes[a].updateTasksOnGet) < MaxTasks
    /\ kind = UPDATE_ON_SET => Len(attributes[a].updateTasksOnSet) < MaxTasks
    /\ LET actor == IF kind = UPDATE_ON_SET THEN ScaledSetter(2) ELSE ScaledGetter(2)
           env == AttributeDynamic_addTask(Env, a, kind,
                                           AttributeUpdateTask(kind, actor, dependency))
       IN  /\ attributes' = env.attributes
           /\ cells' = env.cells
           /\ lastCall' = Call("addTask", a, <<kind, dependency>>, env)
    /\ UNCHANGED <<intfVars, attrMap>>

\* a->clearTasks(kind) on an AttributeDynamic
clearTasks(a, kind) ==
    /\ a \in 1..Len(attributes)
    /\ ~attributes[a].isStatic
    /\ LET env == AttributeDynamic_clearTasks(Env, a, kind)
       IN  /\ attributes' = env.attributes
           /\ cells' = env.cells
           /\ lastCall' = Call("clearTasks", a, <<kind>>, env)
    /\ UNCHANGED <<intfVars, attrMap>>

\* a->clearAllTasks() on an AttributeDynamic
clearAllTasks(a) ==
    /\ a \in 1..Len(attributes)
    /\ ~attributes[a].isStatic
    /\ LET env == AttributeDynamic_clearAllTasks(Env, a)
       IN  /\ attributes' = env.attributes
           /\ cells' = env.cells
           /\ lastCall' = Call("clearAllTasks", a, <<>>, env)
    /\ UNCHANGED <<intfVars, attrMap>>

\* ------------------------------------------------------------------ claims
RECURSIVE Flatten(_)
\* all packets of a sequence of write calls, in the order the channel got them
Flatten(ws) == IF ws = <<>> THEN <<>> ELSE Head(ws) \o Flatten(Tail(ws))

\* the packets of write call i that no earlier write call was given
FreshOf(i) ==
    LET old == IF i > 1 /\ workerKeepsBatch THEN Len(written[i - 1]) ELSE 0
    IN  SubSeq(written[i], old + 1, Len(written[i]))

RECURSIVE FreshUpTo(_)
FreshUpTo(i) == IF i = 0 THEN <<>> ELSE FreshUpTo(i - 1) \o FreshOf(i)

\* every export packet once, in the order the writer first passed it on
FreshWritten == FreshUpTo(Len(written))

IsPrefix(s, t) == Len(s) <= Len(t) /\ SubSeq(t, 1, Len(s)) = s

\* the elements of a sequence, as a set
ElementsOfSeq(s) == {s[n] : n \in 1..Len(s)}

StrictlyIncreasingPerAttribute(hist) ==
    \A i, j \in 1..Len(hist) :
        (i < j /\ hist[i].attributeId = hist[j].attributeId)
            => hist[i].sequenceId < hist[j].sequenceId

\* C1: the export packets, read in enqueue order, carry the sequence numbers
\* 0, 1, 2, ... with no number repeated.
C1_ExportSequenceNumbering ==
    \A k \in 1..Len(enqueued) : enqueued[k].sequenceId = k - 1

\* C2: with downsampling 1 and one export attribute, the packets the channel
\* write receives are exactly the exported snapshots, once each and in export
\* order: at any time a prefix of them, and all of them once the writer is done.
C2_ExportSnapshotOrder ==
    (mDownsampling = 1 /\ Len(mExportAttrsDpsim) = 1)
        => /\ IsPrefix(Flatten(written), enqueued)
           /\ (wPc = "done" => Flatten(written) = enqueued)

\* C3: once the import task is past its blocking loop, and when it has
\* returned to the step's other tasks, every blocking import attribute has a
\* last-applied sequence number >= the expected number read at the task's start.
C3_BlockingBarrier ==
    (simPc \in {"popDrain", "tasks"} /\ timeStepCount \in popSteps)
        => \A k \in 1..Len(mImportAttrsDpsim) :
              mImportAttrsDpsim[k].blockOnRead
                  => mImportAttrsDpsim[k].sequenceId >= currentSequenceId

\* C3 witness: the import task returned after it had to wait: the expected
\* number was above 0 and a blocking attribute caught up with it.
C3_Witness ==
    /\ simPc = "tasks"
    /\ timeStepCount \in popSteps
    /\ currentSequenceId > 0
    /\ \E k \in 1..Len(mImportAttrsDpsim) :
          /\ mImportAttrsDpsim[k].blockOnRead
          /\ mImportAttrsDpsim[k].sequenceId >= currentSequenceId

\* the inbound packets that are read from the channel and not yet dequeued
PendingInbound ==
    {attrsRead[k] : k \in 1..Len(attrsRead)}
        \cup {mQueueInterfaceToDpsim[k] : k \in 1..Len(mQueueInterfaceToDpsim)}

\* C4: when the packet with sequence 0 for a blocking attribute was delivered
\* before the first step, the first step's import task has applied it when the
\* step's other tasks run.
C4_FirstBlockingImport ==
    (simPc = "tasks" /\ timeStepCount = 0 /\ readAtPop >= 1)
        => \A p \in PendingInbound :
              ~(/\ p.sequenceId = 0
                /\ p.value # TypeMismatch
                /\ ImportEntry(p.attributeId).blockOnRead)

\* C5: per attribute, the sequence numbers enqueued for export strictly
\* increase, and so do the sequence numbers applied on import.
C5_SequenceMonotonicity ==
    /\ StrictlyIncreasingPerAttribute(enqueued)
    /\ StrictlyIncreasingPerAttribute(applied)

\* the step counts below n at which the tasks act
ActingStepsBelow(n) == {c \in 0..(n - 1) : c % mDownsampling = 0}

\* C6: PreStep calls the import and PostStep the export exactly at the step
\* counts that are multiples of the downsampling factor; at any other count the
\* task changes no queue, no registered attribute and no sequence counter.
C6_Downsampling ==
    /\ [](mExportAttrsDpsim # <<>> /\ simPc # "push"
            => Len(enqueued) = Len(mExportAttrsDpsim)
                                 * Cardinality(ActingStepsBelow(timeStepCount)))
    /\ [](mImportAttrsDpsim # <<>> /\ simPc \in {"tasks", "post", "push"}
            => popSteps = ActingStepsBelow(timeStepCount + 1))
    /\ [][/\ (simPc = "pre" /\ simPc' = "tasks" /\ mImportAttrsDpsim # <<>>)
              => /\ timeStepCount % mDownsampling # 0
                 /\ UNCHANGED <<regVars, seqVars, queueVars, applied>>
          /\ (simPc = "post" /\ simPc' = "pre" /\ mExportAttrsDpsim # <<>>)
              => /\ timeStepCount % mDownsampling # 0
                 /\ UNCHANGED <<regVars, seqVars, queueVars, enqueued>>
          /\ (simPc = "pre" /\ simPc' = "popWait") => timeStepCount % mDownsampling = 0
          /\ (simPc = "post" /\ simPc' = "push") => timeStepCount % mDownsampling = 0
         ]_vars

\* C6 witness: with downsampling 2 and attributes in both directions, step 0
\* acted, step 1 did not, and the run is at step 2.
C6_Witness ==
    /\ mDownsampling = 2
    /\ timeStepCount = 2
    /\ mImportAttrsDpsim # <<>>
    /\ mExportAttrsDpsim # <<>>
    /\ popSteps = {0}
    /\ Len(enqueued) = Len(mExportAttrsDpsim)

\* C7: when the writer thread has terminated, every export packet enqueued
\* before close() has been passed to the channel write, in enqueue order.
C7_CloseDrainsOutbound ==
    wPc = "done" => FreshWritten = enqueued

\* C7 witness: the writer terminated after a write that carried two export
\* packets it had dequeued in the same round as the close sentinel.
C7_Witness ==
    /\ wPc = "done"
    /\ Len(enqueued) = 2
    /\ Len(written) = 1
    /\ Len(written[1]) = 2

\* the close sentinel is in the outbound queue or the writer has seen it
SentinelEnqueued ==
    \/ interfaceClosed
    \/ \E k \in 1..Len(mQueueDpsimToInterface) :
          mQueueDpsimToInterface[k].flags = PACKET_CLOSE_INTERFACE

\* C8: the channel is open before a worker thread starts; close() marks the
\* interface closed before it enqueues the sentinel and releases the channel
\* only after both threads are over; no channel read or write happens while
\* the channel is not open.
C8_OpenCloseOrdering ==
    /\ (wPc # "none" \/ rPc # "none") => chan # "unopened"
    /\ SentinelEnqueued => ~mOpened
    /\ simPc \in {"joinReader", "closeWorker", "closed"} => wPc = "done"
    /\ simPc \in {"closeWorker", "closed"} => rPc = "done"
    /\ chan = "released" => (wPc = "done" /\ rPc = "done" /\ simPc = "closed")
    /\ rPc = "reading" => chan = "open"
    /\ ~ioOutside

\* C8 witness: the channel is released after both a channel write and a
\* channel read took place.
C8_Witness ==
    /\ chan = "released"
    /\ written # <<>>
    /\ workerSeq > 0

\* C10: when the copy of a dequeued packet fails, the target attribute keeps
\* its value, a warning is logged, the packet has left the queue, and the
\* import task continues in its loops with the entry's sequence number and the
\* expected sequence number advanced as after a successful copy.
C10_ApplyErrorContinues ==
    [][(applied' # applied /\ Head(mQueueInterfaceToDpsim).value = TypeMismatch)
          => LET p == Head(mQueueInterfaceToDpsim)
                 k == p.attributeId + 1
             IN  /\ mImportAttrsDpsim'[k].attr = mImportAttrsDpsim[k].attr
                 /\ warnings' = warnings + 1
                 /\ mQueueInterfaceToDpsim' = Tail(mQueueInterfaceToDpsim)
                 /\ simPc' \in {"popWait", "popDrain"}
                 /\ mImportAttrsDpsim'[k].sequenceId = p.sequenceId
                 /\ mNextSequenceInterfaceToDpsim' = p.sequenceId + 1
                 /\ \A j \in 1..Len(mImportAttrsDpsim) :
                       j # k => mImportAttrsDpsim'[j] = mImportAttrsDpsim[j]
      ]_vars

\* C10 witness: a packet failed to apply and the next packet was applied to the
\* same import task's attribute.
C10_Witness ==
    /\ Len(applied) = 2
    /\ ~applied[1].ok
    /\ applied[2].ok
    /\ warnings = 1
    /\ ImportEntry(applied[2].attributeId).attr = PeerValue(applied[2].sequenceId)
    /\ ImportEntry(applied[2].attributeId).sequenceId = applied[2].sequenceId

\* C9: after close() is called, if every channel read returns, both threads
\* terminate and close() returns; if the reader stays in a channel read for
\* ever, close() never returns.
C9_CloseTerminates ==
    /\ WF_vars(readValuesFromEnv)
          => ((simPc = "closeEnqueue")
                 ~> (simPc = "closed" /\ wPc = "done" /\ rPc = "done"))
    /\ (<>[](rPc = "reading")) => [](simPc # "closed")

\* C9 witness: close() has returned after the reader had to come back from a
\* channel read that was under way when close() was called.
C9_Witness ==
    /\ simPc = "closed"
    /\ wPc = "done"
    /\ rPc = "done"
    /\ workerSeq > 0

\* no import attribute is registered with blockOnRead = true
NoBlockingImport ==
    \A k \in 1..Len(mImportAttrsDpsim) : ~mImportAttrsDpsim[k].blockOnRead

\* C11: when no import attribute is registered as blocking, the import task
\* never waits in a blocking dequeue (its next step, a try_dequeue or its
\* return, is always possible, whatever the peer has sent), every packet it
\* takes is taken by the non-blocking loop, and it returns only when the
\* inbound queue is empty.
C11_NonBlockingImport ==
    /\ [](NoBlockingImport /\ simPc \in {"popWait", "popDrain"}
            => ENABLED (PopTryDequeue \/ PopReturn))
    /\ [][NoBlockingImport
            => /\ (simPc = "popWait" /\ applied' # applied) => simPc' = "popDrain"
               /\ (simPc \in {"popWait", "popDrain"} /\ simPc' = "tasks")
                     => (mQueueInterfaceToDpsim = <<>> /\ UNCHANGED applied)
         ]_vars

\* C11 witness: with a non-blocking import attribute only, the second import
\* task returned although the attribute's last-applied number was behind the
\* expected one and the packet that would bring it up had not come.
C11_Witness ==
    /\ NoBlockingImport
    /\ mImportAttrsDpsim # <<>>
    /\ simPc = "tasks"
    /\ timeStepCount \in popSteps
    /\ currentSequenceId > 0
    /\ \E k \in 1..Len(mImportAttrsDpsim) :
          mImportAttrsDpsim[k].sequenceId < currentSequenceId

\* C12: the k-th export packet enqueued is the one of slot (k - 1) mod n, n the
\* number of registered export attributes, and carries that attribute's value
\* of the step; a whole run of the export task enqueues one packet per
\* attribute. An inbound packet with slot index i sets the value (when its copy
\* succeeds) and the last-applied number of the i-th import entry and leaves
\* every other import entry as it was.
C12_SlotIsRegistrationOrder ==
    /\ [](LET n == Len(mExportAttrsDpsim)
          IN  n > 0 =>
                /\ \A k \in 1..Len(enqueued) :
                      /\ enqueued[k].attributeId = (k - 1) % n
                      /\ enqueued[k].value =
                            StepValue((k - 1) % n, ((k - 1) \div n) * mDownsampling)
                /\ simPc # "push" => Len(enqueued) % n = 0)
    /\ [][applied' # applied
            => LET p == Head(mQueueInterfaceToDpsim)
                   i == p.attributeId + 1
               IN  /\ p.value # TypeMismatch => mImportAttrsDpsim'[i].attr = p.value
                   /\ mImportAttrsDpsim'[i].sequenceId = p.sequenceId
                   /\ mImportAttrsDpsim'[i].blockOnRead = mImportAttrsDpsim[i].blockOnRead
                   /\ Len(mImportAttrsDpsim') = Len(mImportAttrsDpsim)
                   /\ \A j \in 1..Len(mImportAttrsDpsim) :
                         j # i => mImportAttrsDpsim'[j] = mImportAttrsDpsim[j]
         ]_vars

\* C12 witness: two import attributes; a packet for slot 1 has been applied,
\* the second entry holds its value and the first entry is as registered.
C12_Witness ==
    /\ Len(mImportAttrsDpsim) = 2
    /\ Len(applied) = 1
    /\ applied[1].attributeId = 1
    /\ applied[1].ok
    /\ mImportAttrsDpsim[2].attr = PeerValue(applied[1].sequenceId)
    /\ mImportAttrsDpsim[1].attr = 0
    /\ mImportAttrsDpsim[1].sequenceId = 0

\* C25: the last-applied sequence number of every import entry is 0 or the
\* number of a packet for that slot whose copy succeeded; and a dequeued
\* packet whose copy fails leaves the last-applied number of its entry as it
\* was (so the entry stays behind the expected number if it was).
C25_LastAppliedFromCopies ==
    /\ [](\A k \in 1..Len(mImportAttrsDpsim) :
            \/ mImportAttrsDpsim[k].sequenceId = 0
            \/ \E j \in 1..Len(applied) :
                  /\ applied[j].attributeId = k - 1
                  /\ applied[j].sequenceId = mImportAttrsDpsim[k].sequenceId
                  /\ applied[j].ok)
    /\ [][(applied' # applied /\ Head(mQueueInterfaceToDpsim).value = TypeMismatch)
            => LET i == Head(mQueueInterfaceToDpsim).attributeId + 1
               IN  mImportAttrsDpsim'[i].sequenceId = mImportAttrsDpsim[i].sequenceId
         ]_vars

\* the export packets the writer thread has dequeued, in dequeue order: the
\* queue is first-in first-out, so all but the ones still queued
WriterDequeued ==
    LET queued == Cardinality({k \in 1..Len(mQueueDpsimToInterface) :
                                 mQueueDpsimToInterface[k].flags = PACKET_NO_FLAGS})
    IN  SubSeq(enqueued, 1, Len(enqueued) - queued)

\* the batches of write calls i and j have no packet in common
DisjointBatches(i, j) ==
    \A m \in 1..Len(written[i]) : \A n \in 1..Len(written[j]) : written[i][m] # written[j][n]

\* C26: whenever the writer thread is between two rounds, or has terminated,
\* the batches it passed to the channel write, one after the other, are the
\* packets it dequeued, each once and in dequeue order (every batch is what was
\* dequeued since the write before); with a channel write that leaves the batch
\* it is given unmodified, no two batches have a packet in common.
C26_WriterBatchesDisjoint ==
    /\ wPc \in {"wait", "done"} => Flatten(written) = WriterDequeued
    /\ workerKeepsBatch
          => \A i, j \in 1..Len(written) : i < j => DisjointBatches(i, j)

\* the packets the writer thread holds or has passed to the channel write
WriterPackets == ElementsOfSeq(attrsToWrite) \cup ElementsOfSeq(Flatten(written))

\* C27: a step that changes a registered attribute, a registration entry or one
\* of the two sequence counters is a step of the simulation thread (in setup,
\* in the import or the export task, or the step's component tasks) and changes
\* no local of the writer or the reader thread and nothing of the channel; and
\* the writer thread works on detached copies: every packet it holds or has
\* written is an export packet as it was enqueued, whatever the simulation
\* thread has done to the attribute since.
C27_NoRaceOnAttributes ==
    /\ [](WriterPackets \subseteq ElementsOfSeq(enqueued))
    /\ [][(mImportAttrsDpsim' # mImportAttrsDpsim \/ mExportAttrsDpsim' # mExportAttrsDpsim
             \/ mCurrentSequenceDpsimToInterface' # mCurrentSequenceDpsimToInterface
             \/ mNextSequenceInterfaceToDpsim' # mNextSequenceInterfaceToDpsim)
            => /\ simPc \in {"setup", "popWait", "popDrain", "tasks", "push"}
               /\ UNCHANGED <<writerVars, readerVars, peerVars, chan, ioOutside>>
         ]_vars

\* C27 witness: the writer thread holds or has written an export packet whose
\* attribute the simulation thread has changed since, and the import task has
\* applied an inbound packet.
C27_Witness ==
    /\ \E p \in WriterPackets : p.value # ExportEntry(p.attributeId).attr
    /\ \E j \in 1..Len(applied) : applied[j].ok

\* some import attribute is registered with blockOnRead = true
SomeBlockingImport ==
    \E k \in 1..Len(mImportAttrsDpsim) : mImportAttrsDpsim[k].blockOnRead

\* C28: the expected inbound sequence number is 0 exactly as long as no inbound
\* packet has been dequeued; an import task that starts with it at 0 never
\* waits in the blocking dequeue, also with blocking import attributes
\* registered: at its start no blocking attribute counts as behind and its next
\* step, a try_dequeue or its return, is possible whatever is in the inbound
\* queue; every packet it takes is taken by the non-blocking loop, and it
\* returns only when the inbound queue is empty.
C28_NoBlockingAtSequenceZero ==
    /\ [](mNextSequenceInterfaceToDpsim = 0 <=> applied = <<>>)
    /\ [](simPc = "popWait" /\ currentSequenceId = 0
            => /\ ~BlockingAttrPending(currentSequenceId)
               /\ ENABLED (PopTryDequeue \/ PopReturn))
    /\ [][(simPc \in {"popWait", "popDrain"} /\ currentSequenceId = 0)
            => /\ (simPc = "popWait" /\ applied' # applied) => simPc' = "popDrain"
               /\ simPc' = "tasks" => (mQueueInterfaceToDpsim = <<>> /\ UNCHANGED applied)
         ]_vars

\* C28 witness: a blocking import attribute is registered, the peer has sent a
\* value the reader thread has not enqueued yet, and the first import task has
\* returned without having applied a packet.
C28_Witness ==
    /\ SomeBlockingImport
    /\ simPc = "tasks"
    /\ timeStepCount \in popSteps
    /\ currentSequenceId = 0
    /\ applied = <<>>
    /\ workerSeq > 0

Next ==
    \/ \E b \in BOOLEAN : importAttribute(b)
    \/ exportAttribute
    \/ OpenWorker
    \/ StartWriterThread
    \/ StartReaderThread
    \/ PreStep
    \/ PopWaitDequeue
    \/ PopTryDequeue
    \/ PopReturn
    \/ ComponentTasks
    \/ PostStep
    \/ PushOne
    \/ CloseMark
    \/ CloseEnqueue
    \/ CloseJoinWriter
    \/ CloseJoinReader
    \/ CloseWorker
    \/ WriterWaitDequeue
    \/ WriterTryDequeue
    \/ WriterWrite
    \/ ReaderLoop
    \/ readValuesFromEnv
    \/ ReaderEnqueue

Spec == Init /\ [][Next]_vars

\* the steps of close() after its first statement
CloseSteps == CloseEnqueue \/ CloseJoinWriter \/ CloseJoinReader \/ CloseWorker
WriterSteps == WriterWaitDequeue \/ WriterTryDequeue \/ WriterWrite
\* the reader's own steps; the return of the channel read is the channel's
ReaderSteps == ReaderLoop \/ ReaderEnqueue

\* the threads are scheduled: a thread that can take a step takes one
FairSpec ==
    /\ Spec
    /\ WF_vars(CloseSteps)
    /\ WF_vars(WriterSteps)
    /\ WF_vars(ReaderSteps)

\* ------------------------------------------------------- claims: attributes
\* the values the claims about attributes are checked for
Values == {-2, 0, 2, 4}

\* the next call of a client program: it is made when no exception has left
\* the program before
ThenSet(env, a, value) ==
    IF env.thrown # NoException THEN env
    ELSE Attribute_set([env EXCEPT !.ret = <<>>], a, value)

ThenGet(env, a) ==
    IF env.thrown # NoException THEN env
    ELSE Attribute_get([env EXCEPT !.ret = <<>>], a)

ThenAddTask(env, a, kind, task) ==
    IF env.thrown # NoException THEN env
    ELSE AttributeDynamic_addTask(env, a, kind, task)

\* the actor functions a call ran for the tasks of attribute a, in order
RECURSIVE RanFor(_, _)
RanFor(ran, a) ==
    IF ran = <<>> THEN <<>>
    ELSE IF Head(ran).attr = a
         THEN <<[mKind |-> Head(ran).mKind, fn |-> Head(ran).fn, scale |-> Head(ran).scale]>>
                  \o RanFor(Tail(ran), a)
         ELSE RanFor(Tail(ran), a)

\* the stored value of attribute a
StoredValue(env, a) == env.cells[env.attributes[a].mData]

StaticAttrs == {a \in 1..Len(attributes) : attributes[a].isStatic}
DynamicAttrs == {a \in 1..Len(attributes) : ~attributes[a].isStatic}

\* C13: on a static attribute, for every value v, set(v) followed by get()
\* returns v; neither call raises an error or runs a rule. The calls the client
\* made behave so too: after set(v) the attribute holds v, and get() returns the
\* value the attribute holds.
C13_StaticSetGet ==
    /\ \A a \in StaticAttrs : \A v \in Values :
          LET e1 == Attribute_set(Env, a, v)
              e2 == ThenGet(e1, a)
          IN  /\ e1.thrown = NoException
              /\ e2.thrown = NoException
              /\ e2.ret = <<v>>
              /\ e2.ran = <<>>
    /\ (lastCall.op = "set" /\ lastCall.target \in StaticAttrs)
          => /\ lastCall.thrown = NoException
             /\ lastCall.ran = <<>>
             /\ StoredValue(Env, lastCall.target) = lastCall.arg[1]
    /\ (lastCall.op = "get" /\ lastCall.target \in StaticAttrs)
          => /\ lastCall.thrown = NoException
             /\ lastCall.ran = <<>>
             /\ lastCall.ret = <<StoredValue(Env, lastCall.target)>>

\* C13 witness: get() on a static attribute returned 4, a value the attribute
\* has from a set call (it was created with another value).
C13_Witness ==
    /\ lastCall.op = "get"
    /\ lastCall.target \in StaticAttrs
    /\ lastCall.ret = <<4>>
    /\ lastCall.thrown = NoException

\* C14: on a dynamic attribute that was just created, after two rules are
\* registered with kind ON_GET (scaling getters on a static source), get() runs
\* the functions of both, in registration order, and returns the value the
\* second one stored, without raising an error; with one rule likewise.
C14_DynamicGet ==
    (lastCall.op = "createDynamic")
        => \A src \in StaticAttrs : \A k1, k2 \in Scales :
              LET a == lastCall.target
                  e1 == AttributeDynamic_addTask(Env, a, UPDATE_ON_GET,
                            AttributeUpdateTask(UPDATE_ON_GET, ScaledGetter(k1), src))
                  g1 == ThenGet(e1, a)
                  e2 == ThenAddTask(e1, a, UPDATE_ON_GET,
                            AttributeUpdateTask(UPDATE_ON_GET, ScaledGetter(k2), src))
                  g2 == ThenGet(e2, a)
              IN  /\ g1.thrown = NoException
                  /\ g1.ret = <<k1 * StoredValue(Env, src)>>
                  /\ RanFor(g1.ran, a) = <<[mKind |-> UPDATE_ON_GET, fn |-> "scaledGetter",
                                            scale |-> k1]>>
                  /\ g2.thrown = NoException
                  /\ g2.ret = <<k2 * StoredValue(Env, src)>>
                  /\ RanFor(g2.ran, a) =
                        <<[mKind |-> UPDATE_ON_GET, fn |-> "scaledGetter", scale |-> k1],
                          [mKind |-> UPDATE_ON_GET, fn |-> "scaledGetter", scale |-> k2]>>

\* C15: on a dynamic attribute that was just created, after two rules are
\* registered with kind ON_SET (scaling setters on a static source) and one with
\* kind ON_GET, set(v) stores v and then runs the functions of the two ON_SET
\* rules, in registration order, and no other: the source ends with v divided by
\* the second factor, the attribute holds v, and no error is raised.
C15_DynamicSet ==
    (lastCall.op = "createDynamic")
        => \A src \in StaticAttrs : \A k1, k2 \in Scales : \A v \in SetValues :
              LET a == lastCall.target
                  e1 == AttributeDynamic_addTask(Env, a, UPDATE_ON_SET,
                            AttributeUpdateTask(UPDATE_ON_SET, ScaledSetter(k1), src))
                  e2 == ThenAddTask(e1, a, UPDATE_ON_SET,
                            AttributeUpdateTask(UPDATE_ON_SET, ScaledSetter(k2), src))
                  e3 == ThenAddTask(e2, a, UPDATE_ON_GET,
                            AttributeUpdateTask(UPDATE_ON_GET, ScaledGetter(k1), src))
                  s == ThenSet(e3, a, v)
              IN  /\ s.thrown = NoException
                  /\ StoredValue(s, a) = v
                  /\ StoredValue(s, src) = RealDiv(v, k2)
                  /\ RanFor(s.ran, a) =
                        <<[mKind |-> UPDATE_ON_SET, fn |-> "scaledSetter", scale |-> k1],
                          [mKind |-> UPDATE_ON_SET, fn |-> "scaledSetter", scale |-> k2]>>

\* C16: a.setReference(b) on a dynamic attribute a raises no error and leaves a
\* with the one new rule only (in the list of ONCE when b is static, of ON_GET
\* when b is dynamic); after it, whenever b.set(v) has been called, a.get()
\* returns v, also after a second b.set.
C16_ReferenceMirrors ==
    \A a \in DynamicAttrs : \A b \in 1..Len(attributes) :
        a # b =>
           LET r == Attribute_setReference(Env, a, b)
               ra == r.attributes[a]
           IN  /\ r.thrown = NoException
               /\ Len(ra.updateTasksOnSet) = 0
               /\ IF attributes[b].isStatic
                  THEN Len(ra.updateTasksOnce) = 1 /\ Len(ra.updateTasksOnGet) = 0
                  ELSE Len(ra.updateTasksOnce) = 0 /\ Len(ra.updateTasksOnGet) = 1
               /\ \A v1, v2 \in SetValues :
                     LET s1 == ThenSet(r, b, v1)
                         g1 == ThenGet(s1, a)
                         s2 == ThenSet(g1, b, v2)
                         g2 == ThenGet(s2, a)
                     IN  /\ s1.thrown = NoException
                            => (g1.thrown = NoException /\ g1.ret = <<v1>>)
                         /\ s2.thrown = NoException
                            => (g2.thrown = NoException /\ g2.ret = <<v2>>)

\* C17: a static attribute has no update task in any list; setReference on it,
\* with any attribute as the reference, raises TypeException and changes no
\* attribute and no value; the setReference calls the client made on static
\* attributes ended so.
C17_StaticKindError ==
    /\ \A a \in StaticAttrs :
          /\ attributes[a].updateTasksOnce = <<>>
          /\ attributes[a].updateTasksOnGet = <<>>
          /\ attributes[a].updateTasksOnSet = <<>>
          /\ \A reference \in 1..Len(attributes) :
                LET r == Attribute_setReference(Env, a, reference)
                IN  /\ r.thrown = TypeException
                    /\ r.attributes = attributes
                    /\ r.cells = cells
    /\ (lastCall.op = "setReference" /\ lastCall.target \in StaticAttrs)
          => lastCall.thrown = TypeException

\* C17 witness: the client called setReference on a static attribute that held
\* the value 4, with a dynamic attribute as the reference; the call raised
\* TypeException and the attribute still holds 4.
C17_Witness ==
    /\ lastCall.op = "setReference"
    /\ lastCall.target \in StaticAttrs
    /\ lastCall.arg[1] \in DynamicAttrs
    /\ lastCall.thrown = TypeException
    /\ StoredValue(Env, lastCall.target) = 4

\* C18: for d = s.deriveScaled(k) on a static source s, k nonzero, and every x:
\* after s.set(x), y = d.get(), d.set(y), the call s.get() returns x, and none
\* of the calls raises an error.
C18_DeriveRoundTrip ==
    \A s \in StaticAttrs : \A k \in Scales : \A x \in SetValues :
        LET e0 == Attribute_derive(Env, s, ScaledGetter(k), ScaledSetter(k))
            d == e0.ret[1]
            e1 == ThenSet(e0, s, x)
            e2 == ThenGet(e1, d)
            e3 == IF e2.thrown # NoException THEN e2 ELSE ThenSet(e2, d, e2.ret[1])
            e4 == ThenGet(e3, s)
        IN  e1.thrown = NoException
               => (e4.thrown = NoException /\ e4.ret = <<x>>)

\* the set calls of a client program, one after the other
RECURSIVE ThenSetAll(_, _)
ThenSetAll(env, sets) ==
    IF sets = <<>> THEN env
    ELSE ThenSetAll(ThenSet(env, Head(sets).a, Head(sets).v), Tail(sets))

\* C19: for d = s.derive(getter) or d = s.derive(getter, setter) on a static
\* source s, the getter scaling by k: after any (up to two) set calls on s and
\* on d that raise no error, d.get() raises no error and returns k times the
\* value s holds then.
C19_DerivedFreshness ==
    \A s \in StaticAttrs : \A k \in Scales : \A withSetter \in BOOLEAN :
        LET e0 == Attribute_derive(Env, s, ScaledGetter(k),
                                   IF withSetter THEN ScaledSetter(k) ELSE NoActor)
            d == e0.ret[1]
            oneSet == [a : {s, d}, v : SetValues]
        IN  \A sets \in {<<>>} \cup {<<c>> : c \in oneSet}
                                \cup {<<c1, c2>> : c1 \in oneSet, c2 \in oneSet} :
                LET e == ThenSetAll(e0, sets)
                    g == ThenGet(e, d)
                IN  e.thrown = NoException
                       => (g.thrown = NoException /\ g.ret = <<k * StoredValue(e, s)>>)

\* the attributes of a list, as a set
ElementsOf(list) == {list[n] : n \in 1..Len(list)}

\* C20: getDependencies raises no error; on a static attribute it returns the
\* empty list; on d = s.deriveScaled(k) (a rule of kind ON_GET and one of kind
\* ON_SET, both reading s) it returns s; on a dynamic attribute just created and
\* given one rule of each kind, reading s1, s2 and s3, it returns s1, s2 and s3.
C20_GetDependencies ==
    /\ \A a \in StaticAttrs :
          LET r == Attribute_getDependencies(Env, a)
          IN  r.thrown = NoException /\ r.ret = <<>>
    /\ \A s \in 1..Len(attributes) : \A k \in Scales :
          LET e0 == Attribute_derive(Env, s, ScaledGetter(k), ScaledSetter(k))
              r == Attribute_getDependencies([e0 EXCEPT !.ret = <<>>], e0.ret[1])
          IN  r.thrown = NoException /\ ElementsOf(r.ret) = {s}
    /\ (lastCall.op = "createDynamic")
          => \A s1, s2, s3 \in 1..Len(attributes) :
                LET a == lastCall.target
                    e1 == AttributeDynamic_addTask(Env, a, UPDATE_ONCE,
                              AttributeUpdateTask(UPDATE_ONCE, ScaledGetter(2), s1))
                    e2 == AttributeDynamic_addTask(e1, a, UPDATE_ON_GET,
                              AttributeUpdateTask(UPDATE_ON_GET, ScaledGetter(2), s2))
                    e3 == AttributeDynamic_addTask(e2, a, UPDATE_ON_SET,
                              AttributeUpdateTask(UPDATE_ON_SET, ScaledSetter(2), s3))
                    r == Attribute_getDependencies(e3, a)
                IN  r.thrown = NoException /\ ElementsOf(r.ret) = {s1, s2, s3}

\* a create / createDynamic step: every client call records itself in lastCall
Registers == lastCall'.op \in {"create", "createDynamic"}

\* C21: create(name, map, v) returns a new static attribute whose get() is v,
\* createDynamic(name, map) a new dynamic attribute with three empty rule lists;
\* neither raises an error, also when the name is present already; afterwards
\* map[name] is the returned attribute and every entry under another name is as
\* before; every attribute that existed before, the one the name referred to
\* included, is unchanged and keeps its value.
C21_Registration ==
    [][Registers =>
          LET newAttr == lastCall'.ret[1]
              g == Attribute_get(Env', newAttr)
          IN  /\ lastCall'.thrown = NoException
              /\ newAttr = Len(attributes) + 1
              /\ Len(attributes') = newAttr
              /\ \E name \in Names :
                    /\ attrMap'[name] = newAttr
                    /\ \A other \in Names \ {name} : attrMap'[other] = attrMap[other]
              /\ \A a \in 1..Len(attributes) :
                    /\ attributes'[a] = attributes[a]
                    /\ cells'[attributes'[a].mData] = cells[attributes[a].mData]
              /\ attributes'[newAttr].mData \notin {attributes[a].mData : a \in 1..Len(attributes)}
              /\ attributes'[newAttr].updateTasksOnce = <<>>
              /\ attributes'[newAttr].updateTasksOnGet = <<>>
              /\ attributes'[newAttr].updateTasksOnSet = <<>>
              /\ g.thrown = NoException
              /\ IF lastCall'.op = "create"
                 THEN attributes'[newAttr].isStatic /\ g.ret = lastCall'.arg
                 ELSE ~attributes'[newAttr].isStatic
    ]_vars

\* C21 witness: the second create call used the name of the first attribute: no
\* name refers to the first attribute any more, the name refers to the new
\* attribute (created with 0), and the first attribute still holds its 2.
C21_Witness ==
    /\ lastCall.op = "create"
    /\ lastCall.target = 2
    /\ lastCall.arg = <<0>>
    /\ \E name \in Names : attrMap[name] = 2
    /\ \A name \in Names : attrMap[name] # 1
    /\ attributes[1].isStatic
    /\ StoredValue(Env, 1) = 2

\* the three rule lists of attribute a, by kind
TaskLists(env, a) ==
    [kind \in UPDATE_ONCE..UPDATE_ON_SET |->
        CASE kind = UPDATE_ONCE -> env.attributes[a].updateTasksOnce
          [] kind = UPDATE_ON_GET -> env.attributes[a].updateTasksOnGet
          [] OTHER -> env.attributes[a].updateTasksOnSet]

\* C22: on a dynamic attribute, addTask(kind, rule) with kind ONCE, ON_GET or
\* ON_SET raises no error, makes the list of that kind one longer, its old
\* content first, and leaves the two other lists and the stored value as they
\* were; so after addTask(ONCE, rule) the ON_GET list is as before.
C22_AddTaskKeyedByKind ==
    \A a \in DynamicAttrs : \A dependency \in 1..Len(attributes) :
      \A kind \in UPDATE_ONCE..UPDATE_ON_SET :
        LET r == AttributeDynamic_addTask(Env, a, kind,
                     AttributeUpdateTask(kind, ScaledGetter(2), dependency))
            before == TaskLists(Env, a)
            after == TaskLists(r, a)
        IN  /\ r.thrown = NoException
            /\ Len(after[kind]) = Len(before[kind]) + 1
            /\ SubSeq(after[kind], 1, Len(before[kind])) = before[kind]
            /\ \A other \in (UPDATE_ONCE..UPDATE_ON_SET) \ {kind} :
                  after[other] = before[other]
            /\ r.cells = cells

\* C23: on a dynamic attribute, clearTasks(kind) with kind ONCE, ON_GET or
\* ON_SET raises no error, empties the list of that kind and leaves the two
\* other lists as they were (clearTasks(ONCE) keeps the ON_GET rules);
\* clearAllTasks leaves the three lists empty; neither changes a value.
C23_ClearTasksKeyedByKind ==
    \A a \in DynamicAttrs :
        /\ \A kind \in UPDATE_ONCE..UPDATE_ON_SET :
              LET r == AttributeDynamic_clearTasks(Env, a, kind)
                  before == TaskLists(Env, a)
                  after == TaskLists(r, a)
              IN  /\ r.thrown = NoException
                  /\ after[kind] = <<>>
                  /\ \A other \in (UPDATE_ONCE..UPDATE_ON_SET) \ {kind} :
                        after[other] = before[other]
                  /\ r.cells = cells
        /\ LET r == AttributeDynamic_clearAllTasks(Env, a)
           IN  /\ r.thrown = NoException
               /\ \A kind \in UPDATE_ONCE..UPDATE_ON_SET : TaskLists(r, a)[kind] = <<>>
               /\ r.cells = cells

\* C24: on a dynamic attribute, addTask and clearTasks with kind
\* UPDATE_ON_SIMULATION_STEP raise InvalidArgumentException and change no
\* attribute (so none of the three rule lists) and no value; the calls the
\* client made with that kind ended so.
C24_SimulationStepKind ==
    /\ \A a \in DynamicAttrs :
          /\ \A dependency \in 1..Len(attributes) :
                LET r == AttributeDynamic_addTask(Env, a, UPDATE_ON_SIMULATION_STEP,
                             AttributeUpdateTask(UPDATE_ON_SIMULATION_STEP,
                                                 ScaledGetter(2), dependency))
                IN  /\ r.thrown = InvalidArgumentException
                    /\ r.attributes = attributes
                    /\ r.cells = cells
          /\ LET r == AttributeDynamic_clearTasks(Env, a, UPDATE_ON_SIMULATION_STEP)
             IN  /\ r.thrown = InvalidArgumentException
                 /\ r.attributes = attributes
                 /\ r.cells = cells
    /\ (lastCall.op \in {"addTask", "clearTasks"}
          /\ lastCall.arg[1] = UPDATE_ON_SIMULATION_STEP)
          => lastCall.thrown = InvalidArgumentException

\* C24 witness: the client called addTask with kind UPDATE_ON_SIMULATION_STEP on
\* a dynamic attribute that had a rule in each list and held 4; the call raised
\* InvalidArgumentException, and the lists and the value are as they were.
C24_Witness ==
    /\ lastCall.op = "addTask"
    /\ lastCall.arg[1] = UPDATE_ON_SIMULATION_STEP
    /\ lastCall.thrown = InvalidArgumentException
    /\ lastCall.target \in DynamicAttrs
    /\ \A kind \in UPDATE_ONCE..UPDATE_ON_SET :
          Len(TaskLists(Env, lastCall.target)[kind]) = 1
    /\ StoredValue(Env, lastCall.target) = 4

\* C29: for r = c.deriveReal() on a Complex attribute c and every y, r.set(y)
\* raises no error and leaves c with real part y and the imaginary part it had,
\* and r.get() after it returns y; for i = c.deriveImag(), i.set(y) leaves c
\* with imaginary part y and the real part it had, and i.get() returns y.
C29_BackPropagation ==
    \A c \in StaticAttrs : \A y \in SetValues :
        LET old == StoredValue(Env, c)
            r0 == Attribute_deriveReal(Env, c)
            r1 == ThenSet(r0, r0.ret[1], y)
            r2 == ThenGet(r1, r0.ret[1])
            i0 == Attribute_deriveImag(Env, c)
            i1 == ThenSet(i0, i0.ret[1], y)
            i2 == ThenGet(i1, i0.ret[1])
        IN  /\ r1.thrown = NoException
            /\ StoredValue(r1, c) = Complex(y, old.im)
            /\ r2.thrown = NoException
            /\ r2.ret = <<y>>
            /\ StoredValue(r2, c) = Complex(y, old.im)
            /\ i1.thrown = NoException
            /\ StoredValue(i1, c) = Complex(old.re, y)
            /\ i2.thrown = NoException
            /\ i2.ret = <<y>>
            /\ StoredValue(i2, c) = Complex(old.re, y)

\* the client of the attributes: any call, on any attribute it created
AttrNext ==
    \/ \E name \in Names, v \in InitialValues : create(name, v)
    \/ \E name \in Names : createDynamic(name)
    \/ \E source \in 1..MaxAttributes, scale \in Scales : deriveScaled(source, scale)
    \/ \E source \in 1..MaxAttributes, scale \in Scales :
          derive(source, ScaledGetter(scale), NoActor)
    \/ \E a \in 1..MaxAttributes, v \in SetValues \cup ReturnedValues : set(a, v)
    \/ \E a \in 1..MaxAttributes : get(a)
    \/ \E a, reference \in 1..MaxAttributes : setReference(a, reference)
    \/ \E a \in 1..MaxAttributes : getDependencies(a)
    \/ \E a, dependency \in 1..MaxAttributes,
          kind \in UPDATE_ONCE..UPDATE_ON_SIMULATION_STEP : addTask(a, kind, dependency)
    \/ \E a \in 1..MaxAttributes, kind \in UPDATE_ONCE..UPDATE_ON_SIMULATION_STEP :
          clearTasks(a, kind)
    \/ \E a \in 1..MaxAttributes : clearAllTasks(a)

\* the attributes alone: the Interface stays as constructed
AttrInit ==
    /\ Init
    /\ mDownsampling = 1
    /\ workerKeepsBatch = FALSE

AttrSpec == AttrInit /\ [][AttrNext]_vars

\* the client of Complex attributes: the attributes it creates are
\* Attribute<Complex>, the ones it derives from them Attribute<Real>, and it
\* sets each with a value of its type
ComplexNext ==
    \/ \E name \in Names, v \in ComplexValues : create(name, v)
    \/ \E source \in StaticAttrs : deriveReal(source)
    \/ \E source \in StaticAttrs : deriveImag(source)
    \/ \E a \in StaticAttrs, v \in ComplexValues : set(a, v)
    \/ \E a \in DynamicAttrs, v \in SetValues : set(a, v)
    \/ \E a \in 1..MaxAttributes : get(a)

ComplexSpec == AttrInit /\ [][ComplexNext]_vars
====
